---- MODULE Spec2Model ----
(***************************************************************************)
(* react-extract-colors: the useExtractColors hook                         *)
(* (src/src/hooks/useExtractColors.ts) and its extraction pipeline         *)
(* countColors -> sort -> darker/lighter -> formatColors.                  *)
(*                                                                         *)
(* Two specifications share the module:                                    *)
(*   Spec         the hook as a state machine: renders, effect runs,       *)
(*                image load/error events and the async continuation.      *)
(*   SpecExtract  one run of img.onload over a pixel buffer drawn from a   *)
(*                bounded set, scanned pixel by pixel.                     *)
(*                                                                         *)
(* Numbers: channels are integers 0..255.  The JavaScript code works in    *)
(* IEEE doubles; here every quotient is kept as an exact integer fraction  *)
(* and Math.round(p/q) is RoundDiv(p, q).  colorSimilarityThreshold is an  *)
(* integer >= 0, for which Math.sqrt(d2) < t is exactly d2 < t*t.          *)
(***************************************************************************)
EXTENDS Integers, Sequences, FiniteSets, TLC

VARIABLES
    \* ---- the hook (Spec) ----
    mounted,          \* the component is mounted
    imageUrl,         \* the imageUrl prop of the last committed render
    effectPending,    \* a committed render whose [imageUrl] effect has not run yet
    runs,             \* one record per effect run: its closure (url, isMounted) and promise
    dominantColor, darkerColor, lighterColor, colors, loading, error,  \* useState cells
    options,          \* { ...defaultOptions, ...customOptions }
    \* ---- one img.onload run (SpecExtract) ----
    pixels,           \* imageData.data, one <<r,g,b,a>> per pixel
    threshold,        \* options.colorSimilarityThreshold
    sortBy,           \* options.sortBy
    pc,               \* position in the handler
    i,                \* countColors loop index (1-based pixel number)
    colorMap,         \* countColors' colorMap/uniqueColors, in key insertion order
    extracted,        \* the ExtractedColors the promise resolves with
    formatted         \* formatColors(extracted, options)

hookVars == <<mounted, imageUrl, effectPending, runs, dominantColor, darkerColor,
              lighterColor, colors, loading, error, options>>
pipeVars == <<pixels, threshold, sortBy, pc, i, colorMap, extracted, formatted>>
vars == <<hookVars, pipeVars>>

\* ------------------------------------------------------------------ bounds
MaxPixels == 4
MaxRuns == 3

\* ------------------------------------------------------- program constants
AlphaThreshold == 125
DarkerStep == 50
LighterStep == 30
DefaultMaxColors == 3
DefaultColorSimilarityThreshold == 50
DefaultMaxSize == 18

Formats == {"hex", "rgb", "hsl", "hsv", "rgba"}
SortBys == {"vibrance", "dominance"}

defaultOptions ==
    [maxColors |-> DefaultMaxColors, format |-> "rgba", maxSize |-> DefaultMaxSize,
     colorSimilarityThreshold |-> DefaultColorSimilarityThreshold,
     sortBy |-> "dominance"]

\* null of `Color | null`, and null of the string/Error state cells
NullColor == [null |-> TRUE]
Null == "<null>"

\* ------------------------------------------------------------ small helpers
Max2(a, b) == IF a >= b THEN a ELSE b
Min2(a, b) == IF a <= b THEN a ELSE b
Max3(a, b, c) == Max2(a, Max2(b, c))
Min3(a, b, c) == Min2(a, Min2(b, c))

\* Math.round(p / q) for p >= 0, q > 0 (round half up)
RoundDiv(p, q) == (2 * p + q) \div (2 * q)

\* ------------------------------------------------------------- countColors
\* Retained with the alpha cutoff one too low
RetainedFrom124(px) == px[4] >= AlphaThreshold - 1

Retained(px) == px[4] >= AlphaThreshold

\* colorDistance squared: alpha is not part of the distance
ColorDistanceSq(c1, c2) ==
    (c1[1] - c2[1]) * (c1[1] - c2[1]) + (c1[2] - c2[2]) * (c1[2] - c2[2])
        + (c1[3] - c2[3]) * (c1[3] - c2[3])

\* IsSimilar with the comparison turned round
IsSimilarReversed(c1, c2, t) == ColorDistanceSq(c1, c2) > t * t

\* colorDistance(newColor, existingColor) < colorSimilarityThreshold
IsSimilar(c1, c2, t) == t > 0 /\ ColorDistanceSq(c1, c2) < t * t

\* FirstSimilar that compares with the first key only
FirstSimilarFirstKeyOnly(cm, px, t) ==
    IF cm # <<>> /\ IsSimilar(px, cm[1].key, t) THEN 1 ELSE 0

\* the first key (in insertion order) of uniqueColors the pixel is similar to; 0 if none
FirstSimilar(cm, px, t) ==
    LET hits == {k \in 1..Len(cm) : IsSimilar(px, cm[k].key, t)}
    IN  IF hits = {} THEN 0 ELSE CHOOSE k \in hits : \A m \in hits : k <= m

\* uniqueColors[colorKey] = newColor; colorMap[colorKey] = 1.  The key
\* `${r},${g},${b},${a}` is kept as the tuple <<r,g,b,a>> (one string per tuple).
\* Assigning an existing key keeps its place in the key order and resets its count.
PutKey(cm, px) ==
    LET same == {k \in 1..Len(cm) : cm[k].key = px}
    IN  IF same = {} THEN Append(cm, [key |-> px, count |-> 1])
        ELSE [k \in 1..Len(cm) |-> IF k \in same THEN [key |-> px, count |-> 1] ELSE cm[k]]

\* one iteration of the for loop of countColors
CountPixel(cm, px, t, sb) ==
    IF ~Retained(px) THEN cm
    ELSE LET k == FirstSimilar(cm, px, t)
         IN  IF k # 0
             THEN IF sb = "dominance" THEN [cm EXCEPT ![k].count = @ + 1] ELSE cm
             ELSE PutKey(cm, px)

RECURSIVE CountFrom(_, _, _, _)
CountFrom(cm, pxs, t, sb) ==
    IF pxs = <<>> THEN cm
    ELSE CountFrom(CountPixel(cm, Head(pxs), t, sb), Tail(pxs), t, sb)

CountColors(pxs, t, sb) == CountFrom(<<>>, pxs, t, sb)

\* ------------------------------------------------- formatToHsv / parseHsvString
\* The three numbers formatToHsv prints.  In the max = 0 branch v * 100 is
\* printed unrounded; there v = 0, so it prints 0.
HsvParts(c) ==
    LET mx == Max3(c.r, c.g, c.b)
        mn == Min3(c.r, c.g, c.b)
        d  == mx - mn
    IN  IF mx = 0 THEN [h |-> 0, s |-> 0, v |-> 0]
        ELSE LET num == IF mx = c.r THEN 60 * (c.g - c.b) + (IF c.g < c.b THEN 360 * d ELSE 0)
                        ELSE IF mx = c.g THEN 60 * (c.b - c.r) + 120 * d
                        ELSE 60 * (c.r - c.g) + 240 * d
             IN  [h |-> IF mx = mn THEN 0 ELSE RoundDiv(num, d),
                  s |-> RoundDiv(100 * d, mx),
                  v |-> RoundDiv(100 * mx, 255)]

\* FormatToHsv with the null fallback spelled like the other results
FormatToHsvSpacedFallback(c) ==
    IF c = NullColor THEN "hsv(0, 0%, 0%)"
    ELSE LET p == HsvParts(c)
         IN  "hsv(" \o ToString(p.h) \o ", " \o ToString(p.s) \o "%, "
                 \o ToString(p.v) \o "%)"

FormatToHsv(c) ==
    IF c = NullColor THEN "hsv(0,0%,0%)"
    ELSE LET p == HsvParts(c)
         IN  "hsv(" \o ToString(p.h) \o ", " \o ToString(p.s) \o "%, "
                 \o ToString(p.v) \o "%)"

\* parseHsvString applied to the string printed from parts p: the regex reads
\* back the three printed integers; h is returned in 1/360, s and v in 1/100.
ParseHsvString(p) == [h |-> p.h, s |-> p.s, v |-> p.v]

\* saturation: s * v of parseHsvString(formatToHsv(c)), in 1/10000
Saturation(c) == LET hsv == ParseHsvString(HsvParts(c)) IN hsv.s * hsv.v

\* --------------------------------------------------------- other formatters
FormatToRgba(c) ==
    IF c = NullColor THEN "rgba(0,0,0,0)"
    ELSE "rgba(" \o ToString(c.r) \o "," \o ToString(c.g) \o "," \o ToString(c.b)
             \o "," \o ToString(c.a) \o ")"

FormatToRgb(c) ==
    IF c = NullColor THEN "rgb(0,0,0)"
    ELSE "rgb(" \o ToString(c.r) \o "," \o ToString(c.g) \o "," \o ToString(c.b) \o ")"

HexDigit(n) ==
    <<"0", "1", "2", "3", "4", "5", "6", "7", "8", "9", "a", "b", "c", "d", "e", "f">>[n + 1]

\* Number.prototype.toString(16), as a sequence of digits
RECURSIVE ToString16(_)
ToString16(n) ==
    IF n < 16 THEN <<HexDigit(n)>> ELSE Append(ToString16(n \div 16), HexDigit(n % 16))

RECURSIVE Join(_)
Join(s) == IF s = <<>> THEN "" ELSE Head(s) \o Join(Tail(s))

\* `#${((1 << 24) + (r << 16) + (g << 8) + b).toString(16).slice(1)}`
FormatToHex(c) ==
    IF c = NullColor THEN "#000000"
    ELSE "#" \o Join(Tail(ToString16(16777216 + c.r * 65536 + c.g * 256 + c.b)))

FormatToHsl(c) ==
    IF c = NullColor THEN "hsl(0,0%,0%)"
    ELSE LET mx == Max3(c.r, c.g, c.b)
             mn == Min3(c.r, c.g, c.b)
             d  == mx - mn
             num == IF mx = c.r THEN 60 * (c.g - c.b) + (IF c.g < c.b THEN 360 * d ELSE 0)
                    ELSE IF mx = c.g THEN 60 * (c.b - c.r) + 120 * d
                    ELSE 60 * (c.r - c.g) + 240 * d
             h == IF d = 0 THEN 0 ELSE RoundDiv(num, d)
             s == IF d = 0 THEN 0
                  ELSE IF mx + mn > 255 THEN RoundDiv(100 * d, 510 - mx - mn)
                  ELSE RoundDiv(100 * d, mx + mn)
             l == RoundDiv(100 * (mx + mn), 510)
         IN  "hsl(" \o ToString(h) \o ", " \o ToString(s) \o "%, " \o ToString(l) \o "%)"

FormatOne(c, format) ==
    CASE format = "hex" -> FormatToHex(c)
      [] format = "rgb" -> FormatToRgb(c)
      [] format = "hsl" -> FormatToHsl(c)
      [] format = "hsv" -> FormatToHsv(c)
      [] OTHER -> FormatToRgba(c)

\* colors.colors.slice(0, maxColors)
Slice0(s, n) == SubSeq(s, 1, Min2(n, Len(s)))

\* FormatColors taking the three single colours from the truncated list
FormatColorsFromTruncated(ex, opts) ==
    LET top == Slice0(ex.colors, opts.maxColors)
        dom == IF top = <<>> THEN NullColor ELSE top[1]
    IN  [dominantColor |-> FormatOne(dom, opts.format),
         darkerColor |-> FormatOne(IF dom = NullColor THEN dom ELSE ex.darkerColor, opts.format),
         lighterColor |-> FormatOne(IF dom = NullColor THEN dom ELSE ex.lighterColor, opts.format),
         colors |-> [k \in 1..Len(top) |-> FormatOne(top[k], opts.format)]]

FormatColors(ex, opts) ==
    LET top == Slice0(ex.colors, opts.maxColors)
    IN  [dominantColor |-> FormatOne(ex.dominantColor, opts.format),
         darkerColor |-> FormatOne(ex.darkerColor, opts.format),
         lighterColor |-> FormatOne(ex.lighterColor, opts.format),
         colors |-> [k \in 1..Len(top) |-> FormatOne(top[k], opts.format)]]

\* ------------------------------------------------- getDarker / getLighter
GetDarkerColor(c) ==
    [r |-> Max2(0, c.r - DarkerStep), g |-> Max2(0, c.g - DarkerStep),
     b |-> Max2(0, c.b - DarkerStep), a |-> c.a, count |-> c.count]

\* GetLighterColor without the cap at 255
GetLighterColorNoCap(c) ==
    [r |-> c.r + LighterStep, g |-> c.g + LighterStep, b |-> c.b + LighterStep,
     a |-> c.a, count |-> c.count]

GetLighterColor(c) ==
    [r |-> Min2(255, c.r + LighterStep), g |-> Min2(255, c.g + LighterStep),
     b |-> Min2(255, c.b + LighterStep), a |-> c.a, count |-> c.count]

\* ---------------------------------------- img.onload after countColors
\* Object.keys(colorMap).map(...): key.split(",").map(Number) gives back r,g,b,a
ToColor(e) ==
    LET c == [r |-> e.key[1], g |-> e.key[2], b |-> e.key[3], a |-> e.key[4]]
    IN  [r |-> c.r, g |-> c.g, b |-> c.b, a |-> c.a, count |-> e.count,
         saturation |-> Saturation(c)]

\* CompareColors with the operands swapped (ascending order)
CompareColorsAscending(x, y, sb) ==
    IF sb = "dominance" THEN x.count - y.count ELSE x.saturation - y.saturation

\* the sort comparator: negative keeps x before y
CompareColors(x, y, sb) ==
    IF sb = "dominance" THEN y.count - x.count ELSE y.saturation - x.saturation

\* Array.prototype.sort is stable: insertion in array order
RECURSIVE InsertColor(_, _, _)
InsertColor(x, s, sb) ==
    IF s = <<>> THEN <<x>>
    ELSE IF CompareColors(Head(s), x, sb) <= 0
         THEN <<Head(s)>> \o InsertColor(x, Tail(s), sb)
         ELSE <<x>> \o s

RECURSIVE SortFrom(_, _, _)
SortFrom(done, rest, sb) ==
    IF rest = <<>> THEN done
    ELSE SortFrom(InsertColor(Head(rest), done, sb), Tail(rest), sb)

SortColors(s, sb) == SortFrom(<<>>, s, sb)

\* ExtractedColors with the emptiness test off by one (colors.length > 1)
ExtractedColorsOffByOne(cm, sb) ==
    LET sorted == SortColors([k \in 1..Len(cm) |-> ToColor(cm[k])], sb)
    IN  IF Len(sorted) > 1
        THEN [dominantColor |-> sorted[1],
              darkerColor |-> GetDarkerColor(sorted[1]),
              lighterColor |-> GetLighterColor(sorted[1]),
              colors |-> sorted]
        ELSE [dominantColor |-> NullColor, darkerColor |-> NullColor,
              lighterColor |-> NullColor, colors |-> sorted]

\* lines 137-165: the value the promise resolves with
ExtractedColors(cm, sb) ==
    LET sorted == SortColors([k \in 1..Len(cm) |-> ToColor(cm[k])], sb)
    IN  IF Len(sorted) > 0
        THEN [dominantColor |-> sorted[1],
              darkerColor |-> GetDarkerColor(sorted[1]),
              lighterColor |-> GetLighterColor(sorted[1]),
              colors |-> sorted]
        ELSE [dominantColor |-> NullColor, darkerColor |-> NullColor,
              lighterColor |-> NullColor, colors |-> sorted]

ExtractDominantColors(pxs, opts) ==
    ExtractedColors(CountColors(pxs, opts.colorSimilarityThreshold, opts.sortBy),
                    opts.sortBy)

\* ======================================================== SpecExtract
\* Pixel values the buffers are drawn from.  The first four are within 10 of
\* each other in RGB, so thresholds 6 and 7 cluster them differently; one is
\* at the alpha cutoff, one below it, one shares its RGB with another.
Palette ==
    { <<0, 4, 0, 255>>, <<6, 4, 0, 255>>, <<9, 8, 0, 255>>, <<9, 0, 0, 125>>,
      <<128, 128, 128, 124>>, <<0, 4, 0, 200>> }
Thresholds == {0, 6, 7, 500}
MaxColorsChoices == {0, 1, 3}
\* the callers' <<format, maxColors>>: each format with the default maxColors,
\* and each maxColors with the default format
FormatChoices ==
    {<<fmt, DefaultMaxColors>> : fmt \in Formats}
        \cup {<<defaultOptions.format, mc>> : mc \in MaxColorsChoices}
Buffers == UNION {[1..n -> Palette] : n \in 0..MaxPixels}

NoExtracted ==
    [dominantColor |-> NullColor, darkerColor |-> NullColor,
     lighterColor |-> NullColor, colors |-> <<>>]
NoFormatted ==
    [dominantColor |-> Null, darkerColor |-> Null, lighterColor |-> Null, colors |-> <<>>]

HookInitial ==
    /\ mounted = TRUE
    /\ effectPending = TRUE
    /\ runs = <<>>
    /\ colors = <<>>
    /\ dominantColor = Null
    /\ darkerColor = Null
    /\ lighterColor = Null
    /\ loading = TRUE
    /\ error = Null

InitExtract ==
    /\ HookInitial
    /\ imageUrl = "A"
    /\ options = defaultOptions
    /\ pixels \in Buffers
    /\ threshold \in Thresholds
    /\ sortBy \in SortBys
    /\ pc = "onload"
    /\ i = 1
    /\ colorMap = <<>>
    /\ extracted = NoExtracted
    /\ formatted = NoFormatted

\* lines 113-118: canvas.getContext("2d") gave null
GetContextFails ==
    /\ pc = "onload"
    /\ pc' = "rejected"
    /\ UNCHANGED <<hookVars, pixels, threshold, sortBy, i, colorMap, extracted, formatted>>

\* lines 120-129: the canvas is drawn and its pixels read
GetImageData ==
    /\ pc = "onload"
    /\ pc' = "count"
    /\ UNCHANGED <<hookVars, pixels, threshold, sortBy, i, colorMap, extracted, formatted>>

\* lines 388-415: one pixel of countColors
CountStep ==
    /\ pc = "count"
    /\ i <= Len(pixels)
    /\ colorMap' = CountPixel(colorMap, pixels[i], threshold, sortBy)
    /\ i' = i + 1
    /\ UNCHANGED <<hookVars, pixels, threshold, sortBy, pc, extracted, formatted>>

\* lines 137-165: map, sort, derive and resolve
Resolve ==
    /\ pc = "count"
    /\ i > Len(pixels)
    /\ extracted' = ExtractedColors(colorMap, sortBy)
    /\ pc' = "resolved"
    /\ UNCHANGED <<hookVars, pixels, threshold, sortBy, i, colorMap, formatted>>

\* line 75: formatColors(colors, options), for a caller whose options have
\* format fmt and maxColors mc; options keeps them
Format(fmt, mc) ==
    /\ pc = "resolved"
    /\ options' = [maxColors |-> mc, format |-> fmt, maxSize |-> DefaultMaxSize,
                   colorSimilarityThreshold |-> threshold, sortBy |-> sortBy]
    /\ formatted' = FormatColors(extracted, options')
    /\ pc' = "formatted"
    /\ UNCHANGED <<mounted, imageUrl, effectPending, runs, dominantColor, darkerColor,
                   lighterColor, colors, loading, error>>
    /\ UNCHANGED <<pixels, threshold, sortBy, i, colorMap, extracted>>

NextExtract ==
    \/ GetContextFails
    \/ GetImageData
    \/ CountStep
    \/ Resolve
    \/ \E fc \in FormatChoices : Format(fc[1], fc[2])

SpecExtract == InitExtract /\ [][NextExtract]_vars

\* ========================================================= SpecDerive
\* Lines 154-158 alone, over dominant colours whose channels sit at and around
\* the points where r - 50 reaches 0 and r + 30 reaches 255.
Channels == {0, 1, 49, 50, 51, 128, 224, 225, 226, 255}
DominantInputs ==
    {[r |-> r, g |-> g, b |-> b, a |-> a, count |-> 1,
      saturation |-> Saturation([r |-> r, g |-> g, b |-> b, a |-> a])] :
        r \in Channels, g \in Channels, b \in Channels, a \in {125, 255}}

InitDerive ==
    /\ HookInitial
    /\ imageUrl = "A"
    /\ options = defaultOptions
    /\ pixels = <<>>
    /\ threshold = options.colorSimilarityThreshold
    /\ sortBy = options.sortBy
    /\ pc = "dominant"
    /\ i = 1
    /\ colorMap = <<>>
    /\ \E c \in DominantInputs :
           extracted = [dominantColor |-> c, darkerColor |-> NullColor,
                        lighterColor |-> NullColor, colors |-> <<c>>]
    /\ formatted = NoFormatted

\* line 156: darkerColor = getDarkerColor(dominantColor)
DeriveDarker ==
    /\ pc = "dominant"
    /\ extracted' = [extracted EXCEPT !.darkerColor = GetDarkerColor(extracted.dominantColor)]
    /\ pc' = "darker"
    /\ UNCHANGED <<hookVars, pixels, threshold, sortBy, i, colorMap, formatted>>

\* line 157: lighterColor = getLighterColor(dominantColor)
DeriveLighter ==
    /\ pc = "darker"
    /\ extracted' = [extracted EXCEPT !.lighterColor = GetLighterColor(extracted.dominantColor)]
    /\ pc' = "derived"
    /\ UNCHANGED <<hookVars, pixels, threshold, sortBy, i, colorMap, formatted>>

NextDerive ==
    \/ DeriveDarker
    \/ DeriveLighter

SpecDerive == InitDerive /\ [][NextDerive]_vars

\* =============================================================== Spec
Urls == {"A", "B", "C"}

\* img.width, img.height of each image: A is 3 x 1, B is 1 x 1, C is a
\* 1000 x 50 strip
ImageSize(u) ==
    IF u = "A" THEN [width |-> 3, height |-> 1]
    ELSE IF u = "B" THEN [width |-> 1, height |-> 1]
    ELSE [width |-> 1000, height |-> 50]

\* lines 120-124: scaleFactor = Math.min(1, maxSize / Math.max(width, height));
\* canvas.width = width * scaleFactor, canvas.height = height * scaleFactor.
\* The canvas attributes are unsigned longs: the product is truncated.
CanvasSize(u, maxSize) ==
    LET sz == ImageSize(u)
        longest == Max2(sz.width, sz.height)
    IN  IF longest <= maxSize THEN sz
        ELSE [width |-> (sz.width * maxSize) \div longest,
              height |-> (sz.height * maxSize) \div longest]

\* getImageData(0, 0, canvas.width, canvas.height) of line 128 throws
\* IndexSizeError when either side is 0
CanvasReadable(u) ==
    CanvasSize(u, options.maxSize).width > 0 /\ CanvasSize(u, options.maxSize).height > 0

\* what each URL's canvas holds: A is mostly red, B is blue
ImagePixels(u) ==
    IF u = "A" THEN << <<255, 0, 0, 255>>, <<255, 0, 0, 255>>, <<0, 255, 0, 255>> >>
    ELSE IF u = "B" THEN << <<0, 0, 255, 255>> >>
    ELSE <<>>

\* formatColors(await extractDominantColors(imageUrl, options), options)
FormattedFor(u) == FormatColors(ExtractDominantColors(ImagePixels(u), options), options)

Init ==
    /\ HookInitial
    /\ imageUrl \in Urls
    /\ options \in {[defaultOptions EXCEPT !.format = f] : f \in Formats}
    /\ pixels = <<>>
    /\ threshold = options.colorSimilarityThreshold
    /\ sortBy = options.sortBy
    /\ pc = "idle"
    /\ i = 1
    /\ colorMap = <<>>
    /\ extracted = NoExtracted
    /\ formatted = NoFormatted

\* the cleanup of the last effect run: isMounted = false (lines 93-95)
Cleanup(rs) ==
    IF rs = <<>> THEN rs ELSE [rs EXCEPT ![Len(rs)].isMounted = FALSE]

\* lines 68-96: the effect of a committed render runs: the previous run's
\* cleanup, then isMounted = true and the async function up to its await
RunEffect ==
    /\ mounted
    /\ effectPending
    /\ runs' = Append(Cleanup(runs), [url |-> imageUrl, isMounted |-> TRUE, status |-> "pending"])
    /\ effectPending' = FALSE
    /\ UNCHANGED <<mounted, imageUrl, dominantColor, darkerColor, lighterColor, colors,
                   loading, error, options, pipeVars>>

\* a render with another imageUrl is committed (dependency [imageUrl], line 96)
ChangeImageUrl(u) ==
    /\ mounted
    /\ ~effectPending
    /\ u # imageUrl
    /\ Len(runs) < MaxRuns
    /\ imageUrl' = u
    /\ effectPending' = TRUE
    /\ UNCHANGED <<mounted, runs, dominantColor, darkerColor, lighterColor, colors,
                   loading, error, options, pipeVars>>

\* the component unmounts: the last effect run's cleanup runs
Unmount ==
    /\ mounted
    /\ mounted' = FALSE
    /\ runs' = Cleanup(runs)
    /\ effectPending' = FALSE
    /\ UNCHANGED <<imageUrl, dominantColor, darkerColor, lighterColor, colors,
                   loading, error, options, pipeVars>>

\* lines 74-81 and 86-90 after the await resolved, for run k.  The isMounted
\* test of line 73 was made before the await; the four setters are not guarded
\* again.  React drops state updates of an unmounted component.
OnFulfilled(k) ==
    LET formattedColors == FormattedFor(runs[k].url)
    IN  /\ dominantColor' = IF mounted THEN formattedColors.dominantColor ELSE dominantColor
        /\ darkerColor' = IF mounted THEN formattedColors.darkerColor ELSE darkerColor
        /\ lighterColor' = IF mounted THEN formattedColors.lighterColor ELSE lighterColor
        /\ colors' = IF mounted THEN formattedColors.colors ELSE colors
        /\ loading' = IF runs[k].isMounted /\ mounted THEN FALSE ELSE loading
        /\ error' = error

\* OnRejected with a catch block that also resets the colour cells
OnRejectedResetsColors(k, err) ==
    /\ error' = IF runs[k].isMounted /\ mounted THEN err ELSE error
    /\ loading' = IF runs[k].isMounted /\ mounted THEN FALSE ELSE loading
    /\ dominantColor' = Null
    /\ darkerColor' = Null
    /\ lighterColor' = Null
    /\ colors' = <<>>

\* lines 82-90 after the await rejected with err, for run k
OnRejected(k, err) ==
    /\ error' = IF runs[k].isMounted /\ mounted THEN err ELSE error
    /\ loading' = IF runs[k].isMounted /\ mounted THEN FALSE ELSE loading
    /\ UNCHANGED <<dominantColor, darkerColor, lighterColor, colors>>

\* img.onload with a 2d context: the promise resolves (lines 111-166)
ImgOnload(k) ==
    /\ runs[k].status = "pending"
    /\ CanvasReadable(runs[k].url)
    /\ runs' = [runs EXCEPT ![k].status = "fulfilled"]
    /\ OnFulfilled(k)
    /\ UNCHANGED <<mounted, imageUrl, effectPending, options, pipeVars>>

\* img.onload with a 2d context and a canvas with a side of 0: getImageData
\* throws inside the handler (line 128), which has no try/catch; the promise
\* is neither resolved nor rejected and the async function never resumes
ImgOnloadThrows(k) ==
    /\ runs[k].status = "pending"
    /\ ~CanvasReadable(runs[k].url)
    /\ runs' = [runs EXCEPT ![k].status = "thrown"]
    /\ UNCHANGED <<mounted, imageUrl, effectPending, dominantColor, darkerColor,
                   lighterColor, colors, loading, error, options, pipeVars>>

\* img.onload without a 2d context: reject(new Error(...)) (lines 115-118)
ImgOnloadNoContext(k) ==
    /\ runs[k].status = "pending"
    /\ runs' = [runs EXCEPT ![k].status = "rejected"]
    /\ OnRejected(k, "Failed to get canvas context")
    /\ UNCHANGED <<mounted, imageUrl, effectPending, options, pipeVars>>

\* img.onerror: reject(error) (lines 168-170)
ImgOnerror(k) ==
    /\ runs[k].status = "pending"
    /\ runs' = [runs EXCEPT ![k].status = "rejected"]
    /\ OnRejected(k, "error event")
    /\ UNCHANGED <<mounted, imageUrl, effectPending, options, pipeVars>>

Next ==
    \/ RunEffect
    \/ \E u \in Urls : ChangeImageUrl(u)
    \/ Unmount
    \/ \E k \in 1..Len(runs) : ImgOnload(k)
    \/ \E k \in 1..Len(runs) : ImgOnloadThrows(k)
    \/ \E k \in 1..Len(runs) : ImgOnloadNoContext(k)
    \/ \E k \in 1..Len(runs) : ImgOnerror(k)

Spec == Init /\ [][Next]_vars

\* ============================================================ claims: the hook
outputs == <<dominantColor, darkerColor, lighterColor, colors, loading, error>>
colorOutputs == <<dominantColor, darkerColor, lighterColor, colors>>

Current == Len(runs)
HasCurrentRun == mounted /\ ~effectPending /\ runs # <<>> /\ runs[Current].isMounted

\* C1: once an effect run's cleanup has run (isMounted = false), the settling
\* of its still pending extraction, by success or by failure, changes none of
\* dominantColor, darkerColor, lighterColor, colors, loading, error.
C1_NoMutationAfterDiscard ==
    [][\A k \in 1..Len(runs) :
          (~runs[k].isMounted /\ runs[k].status = "pending" /\ runs'[k].status # "pending")
              => UNCHANGED outputs]_vars

\* C2: imageUrl went from one image to another (two effect runs) and both
\* extractions have succeeded, in either order: the colour outputs are those
\* of the current imageUrl.
C2_LatestImageWins ==
    (mounted /\ ~effectPending /\ Len(runs) = 2
        /\ runs[1].status = "fulfilled" /\ runs[2].status = "fulfilled")
        => colorOutputs = <<FormattedFor(imageUrl).dominantColor,
                            FormattedFor(imageUrl).darkerColor,
                            FormattedFor(imageUrl).lighterColor,
                            FormattedFor(imageUrl).colors>>

\* C3: when the extraction of a run that is still current fails (error event
\* or no canvas context), that step leaves dominantColor, darkerColor,
\* lighterColor and colors as they were, makes error non-null and loading false.
C3_FailureKeepsColors ==
    [][\A k \in 1..Len(runs) :
          (runs[k].isMounted /\ runs[k].status = "pending" /\ runs'[k].status = "rejected")
              => /\ UNCHANGED colorOutputs
                 /\ error' # Null
                 /\ loading' = FALSE]_vars

\* a current run has failed after an earlier image had succeeded: the earlier
\* colours are still shown, with the error and loading = false
C3_Witness ==
    /\ HasCurrentRun
    /\ runs[Current].status = "rejected"
    /\ Len(runs) = 2
    /\ runs[1].status = "fulfilled"
    /\ dominantColor = FormattedFor(runs[1].url).dominantColor
    /\ colors = FormattedFor(runs[1].url).colors
    /\ error # Null
    /\ loading = FALSE

\* C4: once the extraction for the current imageUrl has succeeded, error is
\* null, whatever happened to earlier images.
C4_ErrorClearedOnNewImage ==
    (HasCurrentRun /\ runs[Current].status = "fulfilled") => error = Null

\* C5: while the extraction for the current imageUrl is started and not yet
\* settled, loading is true.
C5_LoadingUntilSettled ==
    (HasCurrentRun /\ runs[Current].status = "pending") => loading = TRUE

\* ================================================= claims: the extraction run
\* Resolve and Format leave pixels and colorMap alone, Format leaves extracted
\* alone: the state after the last pixel decides what countColors returned
Scanned == pc = "count" /\ i > Len(pixels)
Resolved == pc = "resolved"

KeyOf(c) == <<c.r, c.g, c.b, c.a>>
NumClusters(pxs, t) == Len(CountColors(pxs, t, sortBy))

\* the spec's example: 10 red and 3 green pixels at threshold 10
RedPx == <<255, 0, 0, 255>>
GreenPx == <<0, 255, 0, 255>>
ExampleBuffer == [k \in 1..13 |-> IF k <= 3 THEN GreenPx ELSE RedPx]
ExampleResult ==
    ExtractDominantColors(ExampleBuffer,
        [defaultOptions EXCEPT !.colorSimilarityThreshold = 10])

SaturationTimesValue(c) == Max3(c.r, c.g, c.b) - Min3(c.r, c.g, c.b)

\* C7: in vibrance mode no colour of the resolved colors comes after a colour
\* whose representative has a strictly smaller saturation x value.
C7_VibranceOrder ==
    (Resolved /\ sortBy = "vibrance") =>
        \A a, b \in 1..Len(extracted.colors) :
            a < b => SaturationTimesValue(extracted.colors[a])
                         >= SaturationTimesValue(extracted.colors[b])

\* C8: the clusters and counts after the scan are those of the buffer with
\* every pixel of alpha < 125 removed, and those of the buffer with every such
\* pixel's r, g, b replaced by any other colour's.
C8_Transparent(px) == px[4] < 125
C8_Opaque(px) == ~C8_Transparent(px)
C8_Recolored(pxs, c) ==
    [k \in 1..Len(pxs) |->
        IF C8_Transparent(pxs[k]) THEN <<c[1], c[2], c[3], pxs[k][4]>> ELSE pxs[k]]
C8_TransparentIgnored ==
    Scanned =>
        /\ colorMap = CountColors(SelectSeq(pixels, C8_Opaque), threshold, sortBy)
        /\ \A c \in Palette :
               colorMap = CountColors(C8_Recolored(pixels, c), threshold, sortBy)

\* a scanned buffer with a pixel of alpha 124, an opaque pixel before and after it
C8_Witness ==
    /\ Scanned
    /\ Len(pixels) >= 3
    /\ C8_Opaque(pixels[1])
    /\ C8_Transparent(pixels[2])
    /\ C8_Opaque(pixels[3])
    /\ colorMap # <<>>

\* C9 as stated: a threshold at least as large as the one used never gives
\* more clusters than the scan produced.
C9_ThresholdMonotone ==
    Scanned =>
        \A t2 \in Thresholds :
            threshold <= t2 => NumClusters(pixels, t2) <= Len(colorMap)

\* the largest squared RGB distance between two retained pixels of the buffer
C9_Wide(pxs, t) ==
    \A a, b \in 1..Len(pxs) :
        (C8_Opaque(pxs[a]) /\ C8_Opaque(pxs[b])) => ColorDistanceSq(pxs[a], pxs[b]) < t * t

\* C9 amended: no threshold gives more clusters than threshold 0, and a
\* threshold larger than every distance between two retained pixels gives at
\* most one cluster, so no more than any other threshold.
C9_MonotoneFromZeroOrWide ==
    Scanned =>
        /\ threshold = 0 =>
               \A t2 \in Thresholds : NumClusters(pixels, t2) <= Len(colorMap)
        /\ C9_Wide(pixels, threshold) =>
               /\ Len(colorMap) <= 1
               /\ \A t1 \in Thresholds : Len(colorMap) <= NumClusters(pixels, t1)

\* a wide threshold merged into one cluster what threshold 0 keeps as three
C9_Witness ==
    /\ Scanned
    /\ threshold > 0
    /\ C9_Wide(pixels, threshold)
    /\ Len(colorMap) = 1
    /\ NumClusters(pixels, 0) >= 3

\* C10: dominantColor, darkerColor and lighterColor of the resolved value are
\* null together, exactly when colorMap is empty; a buffer with no pixel of
\* alpha >= 125 (an empty one too) resolves, with all three null and colors empty.
C10_AllTransparent == \A k \in 1..Len(pixels) : C8_Transparent(pixels[k])
C11_Darker(x) == IF x - 50 < 0 THEN 0 ELSE x - 50
C11_Lighter(x) == IF x + 30 > 255 THEN 255 ELSE x + 30
C11_InRange(c) == c.r \in 0..255 /\ c.g \in 0..255 /\ c.b \in 0..255

\* C11: darkerColor has each of r, g, b of the dominant colour reduced by 50
\* and floored at 0, lighterColor has each increased by 30 and capped at 255,
\* both keep the dominant colour's alpha, and every derived channel is in 0..255.
C11_DarkerLighterBounds ==
    pc = "derived" =>
        LET dom == extracted.dominantColor
            dk == extracted.darkerColor
            lt == extracted.lighterColor
        IN  /\ dk.r = C11_Darker(dom.r) /\ dk.g = C11_Darker(dom.g) /\ dk.b = C11_Darker(dom.b)
            /\ lt.r = C11_Lighter(dom.r) /\ lt.g = C11_Lighter(dom.g) /\ lt.b = C11_Lighter(dom.b)
            /\ dk.a = dom.a
            /\ lt.a = dom.a
            /\ C11_InRange(dk)
            /\ C11_InRange(lt)

\* one channel clamps at 0, one caps at 255, one does neither
C11_Witness ==
    /\ pc = "derived"
    /\ extracted.dominantColor.r = 49
    /\ extracted.darkerColor.r = 0
    /\ extracted.dominantColor.g = 226
    /\ extracted.lighterColor.g = 255
    /\ extracted.dominantColor.b = 128
    /\ extracted.darkerColor.b = 78
    /\ extracted.lighterColor.b = 158

\* ================================================ claims: formatColors
\* C12: the formatted colors are the first min(maxColors, number of clusters)
\* ranked colours, in order, each in the requested format; dominantColor,
\* darkerColor and lighterColor are those of the top-ranked cluster of the
\* untruncated sequence, whatever maxColors is (options.maxColors is the
\* caller's choice and the three right-hand sides do not mention it).
C12_TruncationOnlyColors ==
    pc = "formatted" =>
        LET cs == extracted.colors
            n == IF options.maxColors < Len(cs) THEN options.maxColors ELSE Len(cs)
            top == IF cs = <<>> THEN NullColor ELSE cs[1]
        IN  /\ Len(formatted.colors) = n
            /\ \A k \in 1..n : formatted.colors[k] = FormatOne(cs[k], options.format)
            /\ formatted.dominantColor = FormatOne(top, options.format)
            /\ formatted.darkerColor =
                   FormatOne(IF cs = <<>> THEN NullColor ELSE GetDarkerColor(top), options.format)
            /\ formatted.lighterColor =
                   FormatOne(IF cs = <<>> THEN NullColor ELSE GetLighterColor(top), options.format)

\* three clusters, maxColors 1: one colour listed, the three single colours
\* still those of the top cluster
C12_Witness ==
    /\ pc = "formatted"
    /\ options.maxColors = 1
    /\ options.format = "rgba"
    /\ Len(extracted.colors) >= 3
    /\ Len(formatted.colors) = 1
    /\ formatted.colors[1] = FormatToRgba(extracted.colors[1])
    /\ formatted.darkerColor = FormatToRgba(GetDarkerColor(extracted.colors[1]))
    /\ formatted.darkerColor # formatted.lighterColor

\* ============================================== claims: cluster counts
\* the cluster of the scanned colorMap a retained pixel belongs to: the first
\* one whose representative is nearer than the threshold, else the one it started
C13_ClusterOf(px) ==
    LET near == {k \in 1..Len(colorMap) :
                    threshold > 0
                        /\ ColorDistanceSq(px, colorMap[k].key) < threshold * threshold}
    IN  IF near # {} THEN CHOOSE k \in near : \A m \in near : k <= m
        ELSE CHOOSE k \in 1..Len(colorMap) : colorMap[k].key = px
C13_RetainedPixels == {j \in 1..Len(pixels) : pixels[j][4] >= 125}

\* C13: in dominance mode, for every threshold (0 included), each cluster's
\* count is the number of retained pixels that belong to it, so the counts sum
\* to the number of retained pixels.
C13_CountIsPopulation ==
    (Scanned /\ sortBy = "dominance") =>
        \A k \in 1..Len(colorMap) :
            colorMap[k].count
                = Cardinality({j \in C13_RetainedPixels : C13_ClusterOf(pixels[j]) = k})

\* C14: formatting an empty extraction result gives the fallback literal of
\* the requested format for dominantColor, darkerColor and lighterColor and an
\* empty colors list; each of the five formatters maps null to its literal.
C14_Fallback(fmt) ==
    CASE fmt = "rgba" -> "rgba(0,0,0,0)"
      [] fmt = "rgb" -> "rgb(0,0,0)"
      [] fmt = "hex" -> "#000000"
      [] fmt = "hsl" -> "hsl(0,0%,0%)"
      [] fmt = "hsv" -> "hsv(0,0%,0%)"
C14_NullFallbacks ==
    (pc = "formatted" /\ extracted.dominantColor = NullColor) =>
        /\ formatted.dominantColor = C14_Fallback(options.format)
        /\ formatted.darkerColor = C14_Fallback(options.format)
        /\ formatted.lighterColor = C14_Fallback(options.format)
        /\ formatted.colors = <<>>
        /\ FormatToRgba(NullColor) = "rgba(0,0,0,0)"
        /\ FormatToRgb(NullColor) = "rgb(0,0,0)"
        /\ FormatToHex(NullColor) = "#000000"
        /\ FormatToHsl(NullColor) = "hsl(0,0%,0%)"
        /\ FormatToHsv(NullColor) = "hsv(0,0%,0%)"

\* a buffer of transparent pixels has been formatted as hsv
C14_Witness ==
    /\ pc = "formatted"
    /\ pixels # <<>>
    /\ extracted = NoExtracted
    /\ options.format = "hsv"
    /\ formatted.dominantColor = "hsv(0,0%,0%)"
    /\ formatted.lighterColor = "hsv(0,0%,0%)"
    /\ formatted.colors = <<>>

\* C15: after every pixel countColors has processed, each cluster
\* representative is at RGB distance >= colorSimilarityThreshold from every
\* representative created before it; so are the resolved colours.
C15_RepresentativesApart ==
    /\ pc = "count" =>
           \A a, b \in 1..Len(colorMap) :
               a < b => ColorDistanceSq(colorMap[a].key, colorMap[b].key)
                            >= threshold * threshold
    /\ pc = "resolved" =>
           \A a, b \in 1..Len(extracted.colors) :
               a # b => ColorDistanceSq(KeyOf(extracted.colors[a]), KeyOf(extracted.colors[b]))
                            >= threshold * threshold

\* mid-scan at threshold 6: two representatives exactly 6 apart, and pixels
\* nearer than 6 that joined each of them
C15_Witness ==
    /\ pc = "count"
    /\ threshold = 6
    /\ Len(colorMap) = 2
    /\ ColorDistanceSq(colorMap[1].key, colorMap[2].key) = 36
    /\ colorMap[1].count = 2
    /\ colorMap[2].count = 2
    /\ i <= Len(pixels) + 1

\* ================================================= claims: termination
\* C16: when the load or error event of the image of a run that is still
\* current fires, loading becomes false and exactly one outcome is applied: the
\* four colour outputs are set from that extraction (error untouched), or error
\* is set non-null (colour outputs untouched).
C16_SettleAppliesOneOutcome ==
    [][\A k \in 1..Len(runs) :
          (runs[k].isMounted /\ runs[k].status = "pending" /\ runs'[k].status # "pending")
              => /\ loading' = FALSE
                 /\ \/ /\ runs'[k].status = "fulfilled"
                       /\ dominantColor' = FormattedFor(runs[k].url).dominantColor
                       /\ darkerColor' = FormattedFor(runs[k].url).darkerColor
                       /\ lighterColor' = FormattedFor(runs[k].url).lighterColor
                       /\ colors' = FormattedFor(runs[k].url).colors
                       /\ error' = error
                    \/ /\ runs'[k].status = "rejected"
                       /\ error' # Null
                       /\ UNCHANGED colorOutputs]_vars

====
